---- MODULE Spec2Model ----
(***************************************************************************)
(* GostForwarder (src/panel/app/gost_forwarder.py): the supervisor of the  *)
(* gost child processes, one per tunnel.                                   *)
(*                                                                         *)
(* The state is the object's two dictionaries plus the part of the         *)
(* operating system the handlers act on: the child processes they spawn    *)
(* and the log files they open.  Every public method is one action; the    *)
(* methods are written as operators on a record                            *)
(*     w = [af, fc, procs, files, ev]                                      *)
(* (active_forwards, forward_configs, child processes, log file objects,   *)
(* and what the call did to processes, kept for the observer)              *)
(* so that a method that calls another one (start_forward calls            *)
(* stop_forward, is_forwarding calls start_forward, cleanup_all calls      *)
(* stop_forward) is the composition of the operators.                      *)
(*                                                                         *)
(* Text (command lines, the pkill pattern) is a sequence of strings whose  *)
(* concatenation is the text; every decimal digit is an element of its     *)
(* own, so that the substring match of a port number is computed on the    *)
(* digits as pkill computes it.                                            *)
(*                                                                         *)
(* A log file object is "closed" when the code has called close() on it;   *)
(* an object the registry no longer references and nobody closed stays     *)
(* "open" (when the runtime finalises it is not the supervisor's doing).   *)
(* The writes to an opened log file are taken to succeed.  The tunnel ids  *)
(* of TunnelIds are not the log key of one another; those of               *)
(* AliasTunnelIds are.                                                     *)
(*                                                                         *)
(* Specifications:                                                         *)
(*   Spec          the methods called one at a time, each one atomic;      *)
(*   SpecRestart   Spec plus the restart of the panel process, which       *)
(*                 empties the dictionaries and leaves the children;       *)
(*   SpecShared    two threads inside the methods at once, each method     *)
(*                 run in steps;                                           *)
(*   SpecStopFair  the same steps with a thread inside a method always     *)
(*                 scheduled again, to follow a stop to its return;        *)
(*   SpecBuild     the command of start_forward alone, over its            *)
(*                 arguments and the file systems of the binary check;     *)
(*   SpecBoot      lifespan of src/panel/main.py restoring the forwards    *)
(*                 and the rathole servers of the persisted tunnels;       *)
(*   SpecAlias     Spec over two tunnel ids of which one is the log key    *)
(*                 of the other.                                           *)
(***************************************************************************)
EXTENDS FiniteSets, Integers, Sequences, TLC

VARIABLES active_forwards, forward_configs, procs, files, last, boot, threads

vars == <<active_forwards, forward_configs, procs, files, last, boot, threads>>

\* Bound of the model: the number of start attempts that get as far as
\* opening a log file (each one takes a fresh file id / process id).
MaxStarts == 2

\* ------------------------------------------------------------- inputs
TunnelIds == {"t1", "t2"}

SupportedKinds == {"tcp", "udp", "ws", "grpc", "tcpmux"}

\* The tunnel_type arguments the callers of this model pass.
KindInputs == {"tcp", "bogus"}

TargetA == <<"a", ":", "4", "4", "3">>

TargetB == <<"b", ":", "8", "0">>

\* The (local_port, forward_to) pairs the callers of this model pass: the
\* digits of the first port occur in the second port and in its target.
Endpoints ==
    { [local_port |-> 80, forward_to |-> TargetA],
      [local_port |-> 8080, forward_to |-> TargetB] }

\* ------------------------------------------------------------- text
DigitChar == <<"0", "1", "2", "3", "4", "5", "6", "7", "8", "9">>

RECURSIVE Digits(_)
\* str(n) of a non-negative int, as the f-strings format local_port.
Digits(n) ==
    IF n < 10 THEN <<DigitChar[n + 1]>>
    ELSE Digits(n \div 10) \o <<DigitChar[(n % 10) + 1]>>

\* f"{tunnel_id}_log"
LogKey(tunnel_id) == tunnel_id \o "_log"

FixedBinary == <<"/usr/local/bin/", "gost">>

PathBinary == <<"/usr/bin/", "gost">>

\* ------------------------------------------------------------- dict
\* A Python dict keeps insertion order: a sequence of [key, val].
HasKey(d, k) == \E i \in 1..Len(d) : d[i].key = k

Get(d, k) == d[CHOOSE i \in 1..Len(d) : d[i].key = k].val

Put(d, k, v) ==
    IF HasKey(d, k)
    THEN [i \in 1..Len(d) |-> IF d[i].key = k THEN [key |-> k, val |-> v] ELSE d[i]]
    ELSE Append(d, [key |-> k, val |-> v])

DelSel(e, k) == e.key # k

Del(d, k) == SelectSeq(d, LAMBDA e : DelSel(e, k))

Keys(d) == [i \in 1..Len(d) |-> d[i].key]

ProcVal(pid) == [type |-> "proc", id |-> pid]

FileVal(fid) == [type |-> "file", id |-> fid]

\* ------------------------------------------------------------- command
\* ForwardScheme that forwards with the scheme it listens with.
ForwardSchemeOfListen(tunnel_type) == tunnel_type

\* The scheme of the -F argument in the branches of the if/elif chain.
ForwardScheme(tunnel_type) == IF tunnel_type = "udp" THEN "udp" ELSE "tcp"

ListenArg(tunnel_type, local_port) ==
    <<"-L=", tunnel_type, "://", "0", ".", "0", ".", "0", ".", "0", ":">> \o Digits(local_port)

ForwardArg(tunnel_type, forward_to) ==
    <<"-F=", ForwardScheme(tunnel_type), "://">> \o forward_to

\* BuildCommand with a final else that falls back to tcp.
BuildCommandDefaultTcp(tunnel_type, local_port, forward_to) ==
    LET kind == IF tunnel_type \in SupportedKinds THEN tunnel_type ELSE "tcp"
    IN [ok |-> TRUE,
        cmd |-> <<FixedBinary, ListenArg(kind, local_port), ForwardArg(kind, forward_to)>>]

\* The if/elif chain of start_forward: the command, or the ValueError of the
\* else branch (ok = FALSE).
BuildCommand(tunnel_type, local_port, forward_to) ==
    IF tunnel_type \in SupportedKinds
    THEN [ok |-> TRUE,
          cmd |-> <<FixedBinary, ListenArg(tunnel_type, local_port),
                    ForwardArg(tunnel_type, forward_to)>>]
    ELSE [ok |-> FALSE, cmd |-> <<>>]

\* The file system as the binary check sees it: the binary installed at the
\* fixed path, installed there without the executable bit, or installed
\* nowhere.
FsStates ==
    { [exists |-> TRUE,  executable |-> TRUE,  on_path |-> FALSE],
      [exists |-> TRUE,  executable |-> FALSE, on_path |-> FALSE],
      [exists |-> FALSE, executable |-> FALSE, on_path |-> FALSE] }

\* LocateBinary that takes the binary at the fixed path unchecked.
LocateBinaryUnchecked(fs) == [ok |-> TRUE, binary |-> FixedBinary]

\* os.path.exists / shutil.which / os.access: the binary, or the RuntimeError.
LocateBinary(fs) ==
    IF ~fs.exists
    THEN IF fs.on_path THEN [ok |-> TRUE, binary |-> PathBinary]
         ELSE [ok |-> FALSE, binary |-> <<>>]
    ELSE IF ~fs.executable THEN [ok |-> FALSE, binary |-> <<>>]
         ELSE [ok |-> TRUE, binary |-> FixedBinary]

\* The command start_forward runs, cmd[0] replaced by the located binary, or
\* the exception that ends the call before: the ValueError of the
\* tunnel_type first, the RuntimeError of the binary check second.
Invocation(tunnel_type, local_port, forward_to, fs) ==
    LET bc == BuildCommand(tunnel_type, local_port, forward_to)
        bin == LocateBinary(fs)
    IN IF ~bc.ok THEN [exc |-> "ValueError", cmd |-> <<>>]
       ELSE IF ~bin.ok THEN [exc |-> "RuntimeError", cmd |-> <<>>]
       ELSE [exc |-> "none", cmd |-> [bc.cmd EXCEPT ![1] = bin.binary]]

\* ' '.join(cmd): the command line pkill -f matches against.
CommandLine(cmd) == cmd[1] \o <<" ">> \o cmd[2] \o <<" ">> \o cmd[3]

Occurs(pat, text, from) ==
    \E j \in from..(Len(text) - Len(pat) + 1) : SubSeq(text, j, j + Len(pat) - 1) = pat

\* The regular expression gost.*<local_port> searched in a command line.
PkillMatches(cmd, local_port) ==
    LET text == CommandLine(cmd)
    IN \E i \in 1..Len(text) : text[i] = "gost" /\ Occurs(Digits(local_port), text, i + 1)

\* ------------------------------------------------------------- processes
Running(ps) == {p \in DOMAIN ps : ps[p].state = "running"}

LiveOf(ps, tunnel_id) == {p \in Running(ps) : ps[p].tunnel_id = tunnel_id}

\* TerminateOrKill without the kill after the timeout.
TerminateNoKill(w, pid, ignoring) ==
    IF w.procs[pid].state # "running" \/ pid \in ignoring THEN w
    ELSE [w EXCEPT !.procs[pid].state = "exited", !.ev.stopped = @ \cup {pid}]

\* proc.terminate(); proc.wait(timeout=5); on TimeoutExpired proc.kill();
\* proc.wait().  ignoring: the processes that do not exit on SIGTERM.
\* w.ev.stopped: the processes this call ended; w.ev.killed: those it had to
\* kill.
TerminateOrKill(w, pid, ignoring) ==
    IF w.procs[pid].state # "running" THEN w
    ELSE [w EXCEPT !.procs[pid].state = "exited",
                   !.ev.stopped = @ \cup {pid},
                   !.ev.killed = IF pid \in ignoring THEN @ \cup {pid} ELSE @]

\* The processes that exit on pkill -f gost.*<local_port>, which sends
\* SIGTERM to every matching process.
PkillHits(ps, local_port, ignoring) ==
    {p \in Running(ps) \ ignoring : PkillMatches(ps[p].cmd, local_port)}

Pkill(w, local_port, ignoring) ==
    LET hits == PkillHits(w.procs, local_port, ignoring)
    IN [w EXCEPT !.procs = [p \in DOMAIN w.procs |->
                               IF p \in hits THEN [w.procs[p] EXCEPT !.state = "exited"]
                               ELSE w.procs[p]],
                 !.ev.stopped = @ \cup hits]

\* ------------------------------------------------------------- stop_forward
\* The log file part of the finally clause.  A value under the log key that
\* is no file object (a process) has no close(): the bare except swallows the
\* AttributeError.  w.ev.errors: the exceptions this call swallowed.
CloseLog(w, tunnel_id) ==
    LET log_key == LogKey(tunnel_id)
    IN IF HasKey(w.af, log_key)
       THEN LET v == Get(w.af, log_key)
            IN IF v.type = "file"
               THEN [w EXCEPT !.af = Del(w.af, log_key), !.files[v.id].state = "closed"]
               ELSE [w EXCEPT !.af = Del(w.af, log_key), !.ev.errors = @ + 1]
       ELSE w

\* The body of "if tunnel_id in self.active_forwards".  A value that is no
\* process (a log file object) has no terminate(): the AttributeError is
\* caught by "except Exception" and the finally clause runs.
StopTracked(w, tunnel_id, ignoring) ==
    LET v == Get(w.af, tunnel_id)
        w1 == IF v.type = "proc" THEN TerminateOrKill(w, v.id, ignoring)
              ELSE [w EXCEPT !.ev.errors = @ + 1]
    IN CloseLog([w1 EXCEPT !.af = Del(w.af, tunnel_id)], tunnel_id)

\* The safety cleanup and the removal of the stored config.
SafetyCleanup(w, tunnel_id, ignoring) ==
    IF tunnel_id \in DOMAIN w.fc
    THEN LET local_port == w.fc[tunnel_id].local_port
             w1 == IF local_port # 0 THEN Pkill(w, local_port, ignoring) ELSE w
         IN [w1 EXCEPT !.fc = [t \in DOMAIN w.fc \ {tunnel_id} |-> w.fc[t]]]
    ELSE w

\* StopForward with the log file closed outside the "if".
StopForwardAlwaysCloseLog(w, tunnel_id, ignoring) ==
    SafetyCleanup(CloseLog(IF HasKey(w.af, tunnel_id) THEN StopTracked(w, tunnel_id, ignoring)
                           ELSE w, tunnel_id),
                  tunnel_id, ignoring)

StopForward(w, tunnel_id, ignoring) ==
    SafetyCleanup(IF HasKey(w.af, tunnel_id) THEN StopTracked(w, tunnel_id, ignoring) ELSE w,
                  tunnel_id, ignoring)

\* ------------------------------------------------------------- start_forward
\* What the environment does during one start_forward: the file system the
\* binary check sees, the outcome of open() and Popen(), whether the first
\* poll finds the process exited, the outcomes of the two connect attempts,
\* and whether the second poll finds the process exited.
SpawnOutcomes == {"ok", "open_error", "popen_error"}

ProbeOutcomes == {"listening", "refused", "error"}

EnvDefault ==
    [fs |-> [exists |-> TRUE, executable |-> TRUE, on_path |-> FALSE],
     spawn |-> "ok", exit1 |-> FALSE, probe1 |-> "listening", probe2 |-> "listening",
     exit2 |-> FALSE]

\* One environment for each way start_forward can run with a supported
\* tunnel_type: a field that the run does not read keeps its default value.
StartEnvs ==
    { e \in [fs : FsStates, spawn : SpawnOutcomes, exit1 : BOOLEAN,
             probe1 : ProbeOutcomes, probe2 : ProbeOutcomes, exit2 : BOOLEAN] :
        /\ (~LocateBinary(e.fs).ok => e.spawn = EnvDefault.spawn)
        /\ (~LocateBinary(e.fs).ok \/ e.spawn # "ok" => e.exit1 = EnvDefault.exit1)
        /\ (~LocateBinary(e.fs).ok \/ e.spawn # "ok" \/ e.exit1
               => e.probe1 = EnvDefault.probe1)
        /\ (e.probe1 # "refused" => e.probe2 = EnvDefault.probe2)
        /\ (e.probe2 # "refused" => e.exit2 = EnvDefault.exit2) }

\* The environments of a start_forward that the ValueError of the tunnel_type
\* ends: none of the fields is read, the file system is kept for the observer.
KindErrorEnvs == {[EnvDefault EXCEPT !.fs = fs] : fs \in FsStates}

NextId(w) == Cardinality(DOMAIN w.files) + 1

\* StopExisting without the stop.
StopExistingSkipped(w, tunnel_id, ignoring) == w

\* "Stop existing forward if any".
StopExisting(w, tunnel_id, ignoring) ==
    IF HasKey(w.af, tunnel_id) THEN StopForward(w, tunnel_id, ignoring) ELSE w

OpenLog(w, tunnel_id, fid) ==
    [w EXCEPT !.files = [f \in DOMAIN w.files \cup {fid} |->
                            IF f = fid THEN [tunnel_id |-> tunnel_id, state |-> "open"]
                            ELSE w.files[f]]]

\* subprocess.Popen and the store of the log file object under the log key.
\* w.ev.rivals: the processes of the same tunnel that are running at the spawn.
Spawn(w, tunnel_id, cmd, pid, fid) ==
    [w EXCEPT !.procs = [p \in DOMAIN w.procs \cup {pid} |->
                            IF p = pid
                            THEN [tunnel_id |-> tunnel_id, cmd |-> cmd, state |-> "running"]
                            ELSE w.procs[p]],
                 !.ev.rivals = LiveOf(w.procs, tunnel_id),
                 !.af = Put(w.af, LogKey(tunnel_id), FileVal(fid))]

\* Register without the store of the config.
RegisterHandleOnly(w, tunnel_id, pid, local_port, forward_to, tunnel_type) ==
    [w EXCEPT !.af = Put(w.af, tunnel_id, ProcVal(pid))]

\* The two stores that end a successful start_forward.
Register(w, tunnel_id, pid, local_port, forward_to, tunnel_type) ==
    [w EXCEPT !.af = Put(w.af, tunnel_id, ProcVal(pid)),
              !.fc = [t \in DOMAIN w.fc \cup {tunnel_id} |->
                         IF t = tunnel_id
                         THEN [local_port |-> local_port, forward_to |-> forward_to,
                               tunnel_type |-> tunnel_type]
                         ELSE w.fc[t]]]

\* Probe attempts made: the retry is made only after a refused first attempt.
ProbeAttempts(env) == IF env.probe1 = "refused" THEN 2 ELSE 1

\* Exit status polls made: the second one only after two refused attempts.
Polls(env) == IF env.probe1 = "refused" /\ env.probe2 = "refused" THEN 2 ELSE 1

\* The connect attempts made, with their outcomes.
ProbeSeq(env) == IF env.probe1 = "refused" THEN <<env.probe1, env.probe2>> ELSE <<env.probe1>>

\* ProbeBlock that lets a port that nothing listens on, and a probe that
\* raises, end start_forward with an error.
ProbeBlockStrict(env) ==
    IF ProbeSeq(env)[Len(ProbeSeq(env))] = "listening" THEN "none" ELSE "RuntimeError"

\* The exception that leaves the try block of the probe: none.  Its "except
\* Exception" logs and swallows the error of a connect attempt and the
\* RuntimeError that the block raises itself when the second poll finds
\* the process exited.
ProbeBlock(env) == "none"

Outcome(w, exc, stage, pid, fid, probes, polls) ==
    [w |-> w, exc |-> exc, stage |-> stage, pid |-> pid, fid |-> fid,
     probes |-> probes, polls |-> polls]

StartForward(w, tunnel_id, local_port, forward_to, tunnel_type, env, ignoring) ==
    LET w0 == StopExisting(w, tunnel_id, ignoring)
        inv == Invocation(tunnel_type, local_port, forward_to, env.fs)
        id == NextId(w0)
    IN IF inv.exc = "ValueError" THEN Outcome(w0, "ValueError", "kind", 0, 0, 0, 0)
       ELSE IF inv.exc = "RuntimeError" THEN Outcome(w0, "RuntimeError", "binary", 0, 0, 0, 0)
       ELSE IF env.spawn = "open_error" THEN Outcome(w0, "RuntimeError", "spawn", 0, 0, 0, 0)
       ELSE IF env.spawn = "popen_error"
            THEN Outcome(OpenLog(w0, tunnel_id, id), "RuntimeError", "spawn", 0, id, 0, 0)
       ELSE LET cmd == inv.cmd
                w1 == Spawn(OpenLog(w0, tunnel_id, id), tunnel_id, cmd, id, id)
            IN IF env.exit1
               THEN Outcome([w1 EXCEPT !.procs[id].state = "exited"],
                            "RuntimeError", "poll", id, id, 0, 1)
               ELSE LET w2 == IF Polls(env) = 2 /\ env.exit2
                              THEN [w1 EXCEPT !.procs[id].state = "exited"]
                              ELSE w1
                    IN IF ProbeBlock(env) # "none"
                       THEN Outcome(w2, ProbeBlock(env), "probe", id, id,
                                    ProbeAttempts(env), Polls(env))
                       ELSE Outcome(Register(w2, tunnel_id, id, local_port, forward_to,
                                             tunnel_type),
                                    "none", "done", id, id, ProbeAttempts(env), Polls(env))

\* ------------------------------------------------------------- is_forwarding
\* A stored value that is no process (a log file object) has no poll(): the
\* AttributeError leaves is_forwarding.
IsForwarding(w, tunnel_id, env, ignoring) ==
    IF ~HasKey(w.af, tunnel_id)
    THEN [w |-> w, ret |-> "False", exc |-> "none", starts |-> 0,
          start |-> Outcome(w, "none", "", 0, 0, 0, 0)]
    ELSE LET v == Get(w.af, tunnel_id)
         IN IF v.type # "proc"
            THEN [w |-> w, ret |-> "None", exc |-> "AttributeError", starts |-> 0,
                  start |-> Outcome(w, "none", "", 0, 0, 0, 0)]
            ELSE LET is_alive == w.procs[v.id].state = "running"
                 IN IF ~is_alive /\ tunnel_id \in DOMAIN w.fc
                    THEN LET config == w.fc[tunnel_id]
                             r == StartForward(w, tunnel_id, config.local_port,
                                               config.forward_to, config.tunnel_type,
                                               env, ignoring)
                         IN [w |-> r.w, ret |-> IF r.exc = "none" THEN "True" ELSE "False",
                             exc |-> "none", starts |-> 1, start |-> r]
                    ELSE [w |-> w, ret |-> IF is_alive THEN "True" ELSE "False",
                          exc |-> "none", starts |-> 0,
                          start |-> Outcome(w, "none", "", 0, 0, 0, 0)]

\* is_forwarding would call start_forward.
WouldRestart(w, tunnel_id) ==
    /\ HasKey(w.af, tunnel_id)
    /\ Get(w.af, tunnel_id).type = "proc"
    /\ w.procs[Get(w.af, tunnel_id).id].state # "running"
    /\ tunnel_id \in DOMAIN w.fc

\* ------------------------------------------------------------- get_forwarding_tunnels
RECURSIVE ScanItems(_, _, _, _)
\* The loop over list(self.active_forwards.items()), from item i on.  A log
\* file object has no poll(): the AttributeError ends the loop and the call.
ScanItems(w, items, i, active) ==
    IF i > Len(items) THEN [w |-> w, active |-> active, exc |-> "none"]
    ELSE LET tunnel_id == items[i].key
             v == items[i].val
         IN IF v.type # "proc" THEN [w |-> w, active |-> active, exc |-> "AttributeError"]
            ELSE IF w.procs[v.id].state = "running"
                 THEN ScanItems(w, items, i + 1, Append(active, tunnel_id))
                 ELSE ScanItems([w EXCEPT !.af = Del(w.af, tunnel_id),
                                          !.fc = [t \in DOMAIN w.fc \ {tunnel_id} |-> w.fc[t]]],
                                items, i + 1, active)

GetForwardingTunnels(w) == ScanItems(w, w.af, 1, <<>>)

\* ------------------------------------------------------------- cleanup_all
RECURSIVE StopEach(_, _, _, _)
\* The loop over the keys, from key i on.
StopEach(w, tunnel_ids, i, ignoring) ==
    IF i > Len(tunnel_ids) THEN w
    ELSE StopEach(StopForward(w, tunnel_ids[i], ignoring), tunnel_ids, i + 1, ignoring)

\* CleanupAll that a failure inside one stop_forward ends.
CleanupAllAborting(w, ignoring) ==
    LET tunnel_ids == Keys(w.af)
        failing == {i \in 1..Len(tunnel_ids) : w.af[i].val.type # "proc"}
        n == IF failing = {} THEN Len(tunnel_ids)
             ELSE CHOOSE i \in failing : \A j \in failing : i <= j
    IN StopEach(w, SubSeq(tunnel_ids, 1, n), 1, ignoring)

\* tunnel_ids is every key of active_forwards, the log keys too.
CleanupAll(w, ignoring) == StopEach(w, Keys(w.af), 1, ignoring)

\* ------------------------------------------------------------- boot (panel/main.py)
\* The rows of the tunnel table that lifespan reads at boot.  A row is taken
\* together with the node its node_id selects: node.found (the select
\* returned a row) and node.ip_address (node_metadata.get("ip_address"), ""
\* when the metadata are missing or hold no address).  An absent key of
\* tunnel.spec is 0 for a port and "" for a text.
MaxTunnels == 2

NoSpec == [remote_port |-> 0, listen_port |-> 0, remote_addr |-> "", token |-> ""]

NodeOk == [found |-> TRUE, ip_address |-> "10.0.0.1"]

XrayRow == [status |-> "active", core |-> "xray", type |-> "tcp",
            spec |-> [NoSpec EXCEPT !.remote_port = 443], node |-> NodeOk]

RatholeRow == [status |-> "active", core |-> "rathole", type |-> "rathole",
               spec |-> [NoSpec EXCEPT !.remote_addr = "a:23", !.token = "s", !.remote_port = 8443],
               node |-> NodeOk]

TunnelRows ==
    { XrayRow,
      [XrayRow EXCEPT !.type = "ws", !.spec.remote_port = 0, !.spec.listen_port = 8080],
      [XrayRow EXCEPT !.spec.remote_port = 0],
      [XrayRow EXCEPT !.type = "grpc", !.node = [found |-> FALSE, ip_address |-> ""]],
      [XrayRow EXCEPT !.node.ip_address = ""],
      [XrayRow EXCEPT !.type = "udp"],
      [XrayRow EXCEPT !.status = "error"],
      RatholeRow,
      [RatholeRow EXCEPT !.spec.remote_port = 0, !.spec.listen_port = 9443],
      [RatholeRow EXCEPT !.spec.token = ""],
      [RatholeRow EXCEPT !.spec.remote_addr = ""],
      [RatholeRow EXCEPT !.spec.remote_port = 0],
      [RatholeRow EXCEPT !.status = "error"] }

\* select(Tunnel).where(Tunnel.status == "active"): the ids (the positions in
\* the table) of the selected rows, in the order of the table.
RECURSIVE ActiveIds(_, _)
ActiveIds(table, i) ==
    IF i > Len(table) THEN <<>>
    ELSE (IF table[i].status = "active" THEN <<i>> ELSE <<>>) \o ActiveIds(table, i + 1)

\* spec.get("remote_port") or spec.get("listen_port")
PortOf(spec) == IF spec.remote_port # 0 THEN spec.remote_port ELSE spec.listen_port

NeedsTcpForwarding(tunnel) == tunnel.type \in {"tcp", "ws", "grpc"} /\ tunnel.core = "xray"

\* What a start call of port_forwarder or rathole_server_manager can do to
\* its caller: return, or raise.
StartResults == {"returns", "raises"}

\* The result of the start call made for tunnel id.
StartCall(id, raising) == IF id \in raising THEN "raises" ELSE "returns"

\* The loop of _restore_port_forwards from the i-th selected row on.  calls:
\* the start calls made so far.  exc: the exception that left the loop, which
\* the except clause around the loop logs and swallows.
RECURSIVE ForwardsLoop(_, _, _, _, _)
ForwardsLoop(table, ids, i, raising, calls) ==
    IF i > Len(ids) THEN [calls |-> calls, exc |-> "none"]
    ELSE LET tunnel == table[ids[i]]
             remote_port == PortOf(tunnel.spec)
             node_address == tunnel.node.ip_address
             call == [fn |-> "start_forward", tunnel |-> ids[i], port |-> remote_port,
                      address |-> node_address, result |-> StartCall(ids[i], raising)]
         IN IF ~NeedsTcpForwarding(tunnel) THEN ForwardsLoop(table, ids, i + 1, raising, calls)
            ELSE IF remote_port = 0 THEN ForwardsLoop(table, ids, i + 1, raising, calls)
            ELSE IF ~tunnel.node.found THEN ForwardsLoop(table, ids, i + 1, raising, calls)
            ELSE IF node_address = "" THEN ForwardsLoop(table, ids, i + 1, raising, calls)
            ELSE IF StartCall(ids[i], raising) = "raises"
                 THEN [calls |-> Append(calls, call), exc |-> "Exception"]
                 ELSE ForwardsLoop(table, ids, i + 1, raising, Append(calls, call))

RestorePortForwards(table, raising, calls) ==
    ForwardsLoop(table, ActiveIds(table, 1), 1, raising, calls)

\* The loop of _restore_rathole_servers.
RECURSIVE RatholeLoop(_, _, _, _, _)
RatholeLoop(table, ids, i, raising, calls) ==
    IF i > Len(ids) THEN [calls |-> calls, exc |-> "none"]
    ELSE LET tunnel == table[ids[i]]
             remote_addr == tunnel.spec.remote_addr
             token == tunnel.spec.token
             proxy_port == PortOf(tunnel.spec)
             call == [fn |-> "start_server", tunnel |-> ids[i], port |-> proxy_port,
                      address |-> remote_addr, result |-> StartCall(ids[i], raising)]
         IN IF tunnel.core # "rathole" THEN RatholeLoop(table, ids, i + 1, raising, calls)
            ELSE IF remote_addr = "" \/ token = "" \/ proxy_port = 0
                 THEN RatholeLoop(table, ids, i + 1, raising, calls)
            ELSE IF StartCall(ids[i], raising) = "raises"
                 THEN [calls |-> Append(calls, call), exc |-> "Exception"]
                 ELSE RatholeLoop(table, ids, i + 1, raising, Append(calls, call))

RestoreRatholeServers(table, raising, calls) ==
    RatholeLoop(table, ActiveIds(table, 1), 1, raising, calls)

\* ------------------------------------------------------------- state
NoEvents == [stopped |-> {}, killed |-> {}, rivals |-> {}, errors |-> 0]

World == [af |-> active_forwards, fc |-> forward_configs, procs |-> procs, files |-> files,
          ev |-> NoEvents]

\* last: the most recent call and what it did.  starts: the start_forward
\* calls it made; stage: how far start_forward got; probes, probed, polls:
\* the connect attempts with their outcomes and the exit status polls; fs:
\* the file system its binary check saw; local_port, forward_to, cmd: the
\* arguments and the command of SpecBuild.
NoOp == [op |-> "init", tunnel_id |-> "", tunnel_type |-> "", exc |-> "none", stage |-> "", ret |-> "None",
         active |-> <<>>, pid |-> 0, fid |-> 0, starts |-> 0, probes |-> 0, polls |-> 0,
         probed |-> <<>>, fs |-> EnvDefault.fs, local_port |-> 0, forward_to |-> <<>>,
         cmd |-> <<>>, ev |-> NoEvents]

\* boot.at: where lifespan is ("forwards": before _restore_port_forwards,
\* "rathole": before _restore_rathole_servers, "serving": at the yield).
\* boot.logged: the "Error restoring ..." lines logged.
NoBoot == [tunnels |-> <<>>, at |-> "serving", calls |-> <<>>, logged |-> 0]

NoThreads == <<>>

\* A thread that is in no call of the forwarder.
Idle == [pc |-> "idle", op |-> "", tunnel_id |-> "", local_port |-> 0, forward_to |-> <<>>,
         tunnel_type |-> "", proc |-> 0]

\* The forwarder after construction, with no child process and no log file.
Fresh ==
    /\ active_forwards = <<>>
    /\ forward_configs = <<>>
    /\ procs = <<>>
    /\ files = <<>>
    /\ last = NoOp

Init ==
    /\ Fresh
    /\ boot = NoBoot
    /\ threads = NoThreads

Set(w) ==
    /\ active_forwards' = w.af
    /\ forward_configs' = w.fc
    /\ procs' = w.procs
    /\ files' = w.files
    /\ UNCHANGED <<boot, threads>>

Start(tunnel_id, local_port, forward_to, tunnel_type) ==
    /\ Cardinality(DOMAIN files) < MaxStarts
    /\ \E env \in (IF tunnel_type \in SupportedKinds THEN StartEnvs ELSE KindErrorEnvs) :
       \E ignoring \in (IF HasKey(active_forwards, tunnel_id) THEN SUBSET Running(procs) ELSE {{}}) :
          LET r == StartForward(World, tunnel_id, local_port, forward_to, tunnel_type,
                                env, ignoring)
          IN /\ Set(r.w)
             /\ last' = [NoOp EXCEPT !.op = "start", !.tunnel_id = tunnel_id,
                                     !.tunnel_type = tunnel_type, !.exc = r.exc,
                                     !.stage = r.stage,
                                     !.ret = IF r.exc = "none" THEN "True" ELSE "None",
                                     !.pid = r.pid, !.fid = r.fid, !.starts = 1,
                                     !.probes = r.probes, !.polls = r.polls,
                                     !.probed = IF r.probes > 0 THEN ProbeSeq(env) ELSE <<>>,
                                     !.fs = env.fs, !.ev = r.w.ev]

Stop(tunnel_id) ==
    \E ignoring \in SUBSET Running(procs) :
        LET w == StopForward(World, tunnel_id, ignoring)
        IN /\ Set(w)
           /\ last' = [NoOp EXCEPT !.op = "stop", !.tunnel_id = tunnel_id, !.ev = w.ev]

IsActive(tunnel_id) ==
    /\ WouldRestart(World, tunnel_id) => Cardinality(DOMAIN files) < MaxStarts
    /\ \E env \in (IF WouldRestart(World, tunnel_id) THEN StartEnvs ELSE {EnvDefault}) :
       \E ignoring \in (IF WouldRestart(World, tunnel_id) THEN SUBSET Running(procs) ELSE {{}}) :
          LET r == IsForwarding(World, tunnel_id, env, ignoring)
          IN /\ Set(r.w)
             /\ last' = [NoOp EXCEPT !.op = "is_active", !.tunnel_id = tunnel_id,
                                     !.exc = r.exc, !.stage = r.start.stage, !.ret = r.ret,
                                     !.pid = r.start.pid, !.fid = r.start.fid,
                                     !.starts = r.starts, !.probes = r.start.probes,
                                     !.polls = r.start.polls,
                                     !.probed = IF r.start.probes > 0 THEN ProbeSeq(env)
                                                ELSE <<>>,
                                     !.fs = env.fs, !.ev = r.w.ev]

ListActive ==
    LET r == GetForwardingTunnels(World)
    IN /\ Set(r.w)
       /\ last' = [NoOp EXCEPT !.op = "list_active", !.exc = r.exc, !.active = r.active]

Cleanup ==
    \E ignoring \in SUBSET Running(procs) :
        LET w == CleanupAll(World, ignoring)
        IN /\ Set(w)
           /\ last' = [NoOp EXCEPT !.op = "cleanup_all", !.ev = w.ev]

\* An external kill or a crash of a child process.
ProcessExits(pid) ==
    /\ procs[pid].state = "running"
    /\ procs' = [procs EXCEPT ![pid].state = "exited"]
    /\ last' = [NoOp EXCEPT !.op = "exit", !.pid = pid]
    /\ UNCHANGED <<active_forwards, forward_configs, files, boot, threads>>

Next ==
    \/ \E t \in TunnelIds, e \in Endpoints, k \in KindInputs :
          Start(t, e.local_port, e.forward_to, k)
    \/ \E t \in TunnelIds : Stop(t)
    \/ \E t \in TunnelIds : IsActive(t)
    \/ ListActive
    \/ Cleanup
    \/ \E p \in DOMAIN procs : ProcessExits(p)

Spec == Init /\ [][Next]_vars

\* ------------------------------------------------------------- restart of the panel
\* The panel process ends (a crash, a redeploy) and a new one imports the
\* module: the new GostForwarder has empty dictionaries.  The children were
\* spawned with start_new_session=True and run on; the file objects of the
\* old process are gone with it.
SupervisorRestart ==
    /\ active_forwards' = <<>>
    /\ forward_configs' = <<>>
    /\ files' = [f \in DOMAIN files |-> [files[f] EXCEPT !.state = "closed"]]
    /\ last' = [NoOp EXCEPT !.op = "restart"]
    /\ UNCHANGED <<procs, boot, threads>>

NextRestart == Next \/ SupervisorRestart

SpecRestart == Init /\ [][NextRestart]_vars

\* ------------------------------------------------------------- the command alone
\* The arguments and the file systems the command is built for.
BuildKinds == SupportedKinds \cup {"bogus", "http"}

BuildPorts == {1, 80, 443, 8080, 65535}

BuildTargets == {TargetA, TargetB, <<"1", "2", "7", ".", "0", ".", "0", ".", "1", ":", "9", "9", "9", "9">>}

BuildFsStates == FsStates \cup {[exists |-> FALSE, executable |-> FALSE, on_path |-> TRUE]}

\* last holds the arguments of one start_forward.
InitBuild ==
    /\ active_forwards = <<>>
    /\ forward_configs = <<>>
    /\ procs = <<>>
    /\ files = <<>>
    /\ boot = NoBoot
    /\ threads = NoThreads
    /\ \E k \in BuildKinds, port \in BuildPorts, target \in BuildTargets, fs \in BuildFsStates :
          last = [NoOp EXCEPT !.op = "args", !.tunnel_type = k, !.local_port = port,
                              !.forward_to = target, !.fs = fs]

\* start_forward from the if/elif chain to cmd[0] = gost_binary.
Build ==
    /\ last.op = "args"
    /\ LET inv == Invocation(last.tunnel_type, last.local_port, last.forward_to, last.fs)
       IN last' = [last EXCEPT !.op = "build", !.exc = inv.exc, !.cmd = inv.cmd]
    /\ UNCHANGED <<active_forwards, forward_configs, procs, files, boot, threads>>

NextBuild == Build

SpecBuild == InitBuild /\ [][NextBuild]_vars
InitBoot ==
    /\ Fresh
    /\ threads = NoThreads
    /\ \E n \in 1..MaxTunnels : \E table \in [1..n -> TunnelRows] :
          boot = [NoBoot EXCEPT !.tunnels = table, !.at = "forwards"]

\* await _restore_port_forwards()
RestoreForwardsStep ==
    /\ boot.at = "forwards"
    /\ \E raising \in SUBSET (1..Len(boot.tunnels)) :
          LET r == RestorePortForwards(boot.tunnels, raising, boot.calls)
          IN boot' = [boot EXCEPT !.at = "rathole", !.calls = r.calls,
                                  !.logged = @ + (IF r.exc = "none" THEN 0 ELSE 1)]
    /\ UNCHANGED <<active_forwards, forward_configs, procs, files, last, threads>>

\* await _restore_rathole_servers()
RestoreRatholeStep ==
    /\ boot.at = "rathole"
    /\ \E raising \in SUBSET (1..Len(boot.tunnels)) :
          LET r == RestoreRatholeServers(boot.tunnels, raising, boot.calls)
          IN boot' = [boot EXCEPT !.at = "serving", !.calls = r.calls,
                                  !.logged = @ + (IF r.exc = "none" THEN 0 ELSE 1)]
    /\ UNCHANGED <<active_forwards, forward_configs, procs, files, last, threads>>

NextBoot == RestoreForwardsStep \/ RestoreRatholeStep

SpecBoot == InitBoot /\ [][NextBoot]_vars

\* ------------------------------------------------------------- calls that overlap
\* The forwarder holds no lock, so two threads may be inside its methods at
\* once.  A thread runs a method in the steps below, each one atomic; between
\* two steps the other thread may run.  The steps end where the code blocks
\* (proc.wait, pkill, Popen, time.sleep) or hands over to another method.
\* threads[th].pc is the step the thread takes next, threads[th].op the
\* method its caller called, threads[th].proc the local variable proc.
\* The tunnel ids the threads pass hold a process in active_forwards.
Threads == {1, 2}

SharedTunnelIds == {"t1"}

\* The endpoints of the starts that overlap, and the one endpoint of the
\* starts made around a stop that is followed to its return.
SharedEndpoints == Endpoints

StopEndpoints == {[local_port |-> 80, forward_to |-> TargetA]}

\* The calls of start_forward that have not yet spawned their process.
Pending(ths) ==
    {th \in DOMAIN ths : /\ ths[th].op \in {"start", "is_active"}
                          /\ ths[th].pc \in {"is_restart", "stop_wait", "stop_kill",
                                             "stop_sweep", "start_spawn"}}

MayStart == Cardinality(DOMAIN files) + Cardinality(Pending(threads)) < MaxStarts

SetShared(w) ==
    /\ active_forwards' = w.af
    /\ forward_configs' = w.fc
    /\ procs' = w.procs
    /\ files' = w.files
    /\ UNCHANGED <<last, boot>>

\* proc.terminate(): the process exits unless it ignores SIGTERM.
SigTerm(w, pid, ignores) ==
    IF w.procs[pid].state = "running" /\ ~ignores
    THEN [w EXCEPT !.procs[pid].state = "exited"]
    ELSE w

\* proc.kill()
SigKill(w, pid) == [w EXCEPT !.procs[pid].state = "exited"]

\* proc.wait() with no timeout: it blocks while the process runs.
WaitWithoutTimeout(state) == IF state = "running" THEN "blocked" ELSE "exited"

\* proc.wait(timeout=5): it returns when the process has exited and raises
\* TimeoutExpired when the process is still running after 5 seconds.
WaitResult(state) == IF state = "running" THEN "timeout" ELSE "exited"

\* The thread after "if tunnel_id in self.active_forwards: proc = ...;
\* proc.terminate()" of stop_forward.
StopEnter(w, th_rec, ignores) ==
    IF HasKey(w.af, th_rec.tunnel_id)
    THEN LET pid == Get(w.af, th_rec.tunnel_id).id
         IN [w |-> SigTerm(w, pid, ignores),
             th |-> [th_rec EXCEPT !.pc = "stop_wait", !.proc = pid]]
    ELSE [w |-> w, th |-> [th_rec EXCEPT !.pc = "stop_sweep"]]

\* The finally clause of stop_forward: the del of a key that another thread
\* has deleted meanwhile raises KeyError, which leaves stop_forward (and the
\* start_forward that called it).
Finally(w, th_rec) ==
    IF HasKey(w.af, th_rec.tunnel_id)
    THEN [w |-> CloseLog([w EXCEPT !.af = Del(w.af, th_rec.tunnel_id)], th_rec.tunnel_id),
          th |-> [th_rec EXCEPT !.pc = "stop_sweep"]]
    ELSE [w |-> w, th |-> Idle]

\* "if tunnel_id in self.active_forwards: self.stop_forward(tunnel_id)" of
\* start_forward, up to the first point where stop_forward blocks.
StartEnter(w, th_rec, ignores) ==
    IF HasKey(w.af, th_rec.tunnel_id) THEN StopEnter(w, th_rec, ignores)
    ELSE [w |-> w, th |-> [th_rec EXCEPT !.pc = "start_spawn"]]

CallStart(th, tunnel_id, local_port, forward_to, tunnel_type) ==
    /\ threads[th].pc = "idle"
    /\ MayStart
    /\ \E ignores \in BOOLEAN :
          LET r == StartEnter(World,
                              [Idle EXCEPT !.op = "start", !.tunnel_id = tunnel_id,
                                           !.local_port = local_port, !.forward_to = forward_to,
                                           !.tunnel_type = tunnel_type],
                              ignores)
          IN SetShared(r.w) /\ threads' = [threads EXCEPT ![th] = r.th]

CallStop(th, tunnel_id) ==
    /\ threads[th].pc = "idle"
    /\ \E ignores \in BOOLEAN :
          LET r == StopEnter(World, [Idle EXCEPT !.op = "stop", !.tunnel_id = tunnel_id], ignores)
          IN SetShared(r.w) /\ threads' = [threads EXCEPT ![th] = r.th]

\* is_forwarding up to the call of start_forward.
CallIsActive(th, tunnel_id) ==
    /\ threads[th].pc = "idle"
    /\ IF WouldRestart(World, tunnel_id)
       THEN /\ MayStart
            /\ LET config == forward_configs[tunnel_id]
               IN threads' = [threads EXCEPT ![th] =
                                 [Idle EXCEPT !.pc = "is_restart", !.op = "is_active",
                                              !.tunnel_id = tunnel_id,
                                              !.local_port = config.local_port,
                                              !.forward_to = config.forward_to,
                                              !.tunnel_type = config.tunnel_type]]
       ELSE UNCHANGED threads
    /\ UNCHANGED <<active_forwards, forward_configs, procs, files, last, boot>>

\* self.start_forward(...) called by is_forwarding.
IsRestart(th) ==
    /\ threads[th].pc = "is_restart"
    /\ \E ignores \in BOOLEAN :
          LET r == StartEnter(World, threads[th], ignores)
          IN SetShared(r.w) /\ threads' = [threads EXCEPT ![th] = r.th]

\* proc.wait(timeout=5) and, when the process has exited, the finally clause.
StopWait(th) ==
    /\ threads[th].pc = "stop_wait"
    /\ LET res == WaitResult(procs[threads[th].proc].state)
       IN /\ res # "blocked"
          /\ IF res = "exited"
             THEN LET r == Finally(World, threads[th])
                  IN SetShared(r.w) /\ threads' = [threads EXCEPT ![th] = r.th]
             ELSE /\ threads' = [threads EXCEPT ![th].pc = "stop_kill"]
                  /\ UNCHANGED <<active_forwards, forward_configs, procs, files, last, boot>>

\* except subprocess.TimeoutExpired: proc.kill(); proc.wait(), and the
\* finally clause.
StopKill(th) ==
    /\ threads[th].pc = "stop_kill"
    /\ LET r == Finally(SigKill(World, threads[th].proc), threads[th])
       IN SetShared(r.w) /\ threads' = [threads EXCEPT ![th] = r.th]

\* The safety cleanup and the del of the config; stop_forward returns, to
\* its caller or into start_forward.
StopSweep(th) ==
    /\ threads[th].pc = "stop_sweep"
    /\ \E ignoring \in SUBSET Running(procs) :
          SetShared(SafetyCleanup(World, threads[th].tunnel_id, ignoring))
    /\ threads' = [threads EXCEPT ![th] =
                      IF threads[th].op = "stop" THEN Idle
                      ELSE [threads[th] EXCEPT !.pc = "start_spawn"]]

\* The command, the binary, the log file and Popen, up to time.sleep(1.5).
StartSpawn(th) ==
    /\ threads[th].pc = "start_spawn"
    /\ LET t == threads[th]
           inv == Invocation(t.tunnel_type, t.local_port, t.forward_to, EnvDefault.fs)
           id == NextId(World)
       IN /\ SetShared(Spawn(OpenLog(World, t.tunnel_id, id), t.tunnel_id, inv.cmd, id, id))
          /\ threads' = [threads EXCEPT ![th].pc = "start_poll", ![th].proc = id]

\* proc.poll() after the sleep: the RuntimeError when the process has exited.
StartPoll(th) ==
    /\ threads[th].pc = "start_poll"
    /\ threads' = [threads EXCEPT ![th] =
                      IF procs[threads[th].proc].state = "running"
                      THEN [threads[th] EXCEPT !.pc = "start_probe"]
                      ELSE Idle]
    /\ UNCHANGED <<active_forwards, forward_configs, procs, files, last, boot>>

\* The probe, whose outcome changes nothing, and the two stores.
StartProbe(th) ==
    /\ threads[th].pc = "start_probe"
    /\ LET t == threads[th]
       IN SetShared(Register(World, t.tunnel_id, t.proc, t.local_port, t.forward_to,
                             t.tunnel_type))
    /\ threads' = [threads EXCEPT ![th] = Idle]

\* A child process exits by itself.
ExitsMeanwhile(pid) ==
    /\ procs[pid].state = "running"
    /\ procs' = [procs EXCEPT ![pid].state = "exited"]
    /\ UNCHANGED <<active_forwards, forward_configs, files, last, boot, threads>>

\* The next step of a thread that is inside a method.
Step(th) ==
    \/ IsRestart(th)
    \/ StopWait(th)
    \/ StopKill(th)
    \/ StopSweep(th)
    \/ StartSpawn(th)
    \/ StartPoll(th)
    \/ StartProbe(th)

InitShared ==
    /\ Fresh
    /\ boot = NoBoot
    /\ threads = [th \in Threads |-> Idle]

\* A call by a thread that is in no call.
Call(th, endpoints) ==
    \/ \E t \in SharedTunnelIds, e \in endpoints :
          CallStart(th, t, e.local_port, e.forward_to, "tcp")
    \/ \E t \in SharedTunnelIds : CallStop(th, t)
    \/ \E t \in SharedTunnelIds : CallIsActive(th, t)

NextShared ==
    \/ \E th \in Threads : Call(th, SharedEndpoints)
    \/ \E th \in Threads : Step(th)
    \/ \E p \in DOMAIN procs : ExitsMeanwhile(p)

SpecShared == InitShared /\ [][NextShared]_vars

NextStop ==
    \/ \E th \in Threads : Call(th, StopEndpoints)
    \/ \E th \in Threads : Step(th)
    \/ \E p \in DOMAIN procs : ExitsMeanwhile(p)

\* A thread that is inside a method is scheduled again and again, and each
\* of its blocking calls returns: proc.wait(timeout=5) and pkill with
\* timeout=3 after their timeout at the latest, proc.wait() once the killed
\* process is gone.
SpecStopFair == InitShared /\ [][NextStop]_vars /\ \A th \in Threads : WF_vars(Step(th))

\* ------------------------------------------------------------- a tunnel id that is a log key
\* tunnel_id is any string.  The id of the second tunnel is the key under
\* which start_forward stores the log file object of the first one.
AliasTunnelIds == {"t1", LogKey("t1")}

NextAlias ==
    \/ \E t \in AliasTunnelIds, e \in Endpoints, k \in KindInputs :
          Start(t, e.local_port, e.forward_to, k)
    \/ \E t \in AliasTunnelIds : Stop(t)
    \/ \E t \in AliasTunnelIds : IsActive(t)
    \/ ListActive
    \/ Cleanup
    \/ \E p \in DOMAIN procs : ProcessExits(p)

SpecAlias == Init /\ [][NextAlias]_vars

\* ------------------------------------------------------------- views
Vals(d, k) == {d[i].val : i \in {j \in 1..Len(d) : d[j].key = k}}

\* What the registry holds for a tunnel: its process handle, its log file
\* object and its stored config (each a set with at most one element).
EntryOf(af, fc, tunnel_id) ==
    [handle |-> Vals(af, tunnel_id),
     log |-> Vals(af, LogKey(tunnel_id)),
     config |-> IF tunnel_id \in DOMAIN fc THEN {fc[tunnel_id]} ELSE {}]

NoEntry == [handle |-> {}, log |-> {}, config |-> {}]

OpenFiles(fs) == {f \in DOMAIN fs : fs[f].state = "open"}

Referenced(af, fid) == \E i \in 1..Len(af) : af[i].val = FileVal(fid)

\* The tunnels whose key holds a process handle.
Registered(af) == {t \in TunnelIds : \E v \in Vals(af, t) : v.type = "proc"}

StartFailed(l) == l.op = "start" /\ l.exc # "none"

\* The process handle and the log file object the registry holds for a tunnel.
HandleOf(af, tunnel_id) == {v \in Vals(af, tunnel_id) : v.type = "proc"}

LogOf(af, tunnel_id) == {v \in Vals(af, LogKey(tunnel_id)) : v.type = "file"}

RECURSIVE TreatedByCleanup(_, _, _)
\* The values cleanup_all hands to stop_forward as "proc", from key i on.
TreatedByCleanup(w, tunnel_ids, i) ==
    IF i > Len(tunnel_ids) THEN {}
    ELSE Vals(w.af, tunnel_ids[i])
            \cup TreatedByCleanup(StopForward(w, tunnel_ids[i], {}), tunnel_ids, i + 1)

\* The values a call takes out of active_forwards as "proc": the value under
\* its tunnel_id (stop_forward, is_forwarding, the stop inside start_forward),
\* the value of every item (get_forwarding_tunnels), the value under every
\* key that is still there when its turn comes (cleanup_all).
Treated(w, op, tunnel_id) ==
    IF op \in {"start", "stop", "is_active"} THEN Vals(w.af, tunnel_id)
    ELSE IF op = "list_active" THEN {w.af[i].val : i \in 1..Len(w.af)}
    ELSE IF op = "cleanup_all" THEN TreatedByCleanup(w, Keys(w.af), 1)
    ELSE {}

\* ------------------------------------------------------------- claims

\* C1: with the calls issued one at a time, a tunnel_id never has more than
\* one running child process; no process is spawned while another process
\* of the same tunnel is running (a second start has ended the process of
\* the first one before it spawns); and when start returns success the
\* registered process is the only process of the tunnel that can be running.
C1_AtMostOneLiveProcess ==
    /\ \A t \in TunnelIds : Cardinality(LiveOf(procs, t)) <= 1
    /\ last.ev.rivals = {}
    /\ (last.op = "start" /\ last.exc = "none")
          => /\ LiveOf(procs, last.tunnel_id) \subseteq {last.pid}
             /\ Vals(active_forwards, last.tunnel_id) = {ProcVal(last.pid)}

\* C1 witness: a second start with the arguments of the first one has ended
\* the running process of the first and its own process is the one running.
C1_Witness ==
    /\ last.op = "start" /\ last.exc = "none"
    /\ LiveOf(procs, last.tunnel_id) = {last.pid}
    /\ \E p \in last.ev.stopped :
          /\ p # last.pid
          /\ procs[p].tunnel_id = last.tunnel_id
          /\ procs[p].cmd = procs[last.pid].cmd

\* C2 as stated: a start that fails leaves the registry content of its
\* tunnel (handle, log sink, config) as it was before the call.
C2_FailedStartLeavesRegistryUntouched ==
    [][\A t \in TunnelIds :
          (StartFailed(last') /\ last'.tunnel_id = t)
             => EntryOf(active_forwards', forward_configs', t)
                  = EntryOf(active_forwards, forward_configs, t)]_vars

\* C3 as stated: when a start fails after it opened a log sink, that sink is
\* closed and not referenced by the registry, and the process it spawned is
\* not running.
C3_FailedStartReleasesResources ==
    (StartFailed(last) /\ last.fid # 0)
       => /\ files[last.fid].state = "closed"
          /\ ~Referenced(active_forwards, last.fid)
          /\ (last.pid # 0 => procs[last.pid].state # "running")

\* C4 as stated: is_active on a registered tunnel whose process has exited
\* makes one restart with the stored config, returns true exactly if the
\* restart succeeded, and leaves for the tunnel either one live handle with
\* its log sink and config or nothing at all.
C4_RestartLeavesRegistryConsistent ==
    [][\A t \in TunnelIds :
          (WouldRestart(World, t) /\ last'.op = "is_active" /\ last'.tunnel_id = t)
             => /\ last'.starts = 1
                /\ (last'.ret = "True") = (last'.stage = "done")
                /\ last'.ret \in {"True", "False"}
                /\ LET e == EntryOf(active_forwards', forward_configs', t)
                   IN \/ e = NoEntry
                      \/ /\ e.handle = {ProcVal(last'.pid)}
                         /\ procs'[last'.pid].state = "running"
                         /\ e.log = {FileVal(last'.fid)}
                         /\ e.config = {forward_configs[t]}]_vars

\* C5 as stated: list_active does not raise, returns exactly the tunnels
\* whose process is running, and leaves no entry whose process has exited.
C5_ListActiveReturnsLiveAndPrunesDead ==
    [][last'.op = "list_active"
          => /\ last'.exc = "none"
             /\ {last'.active[i] : i \in 1..Len(last'.active)}
                  = {t \in Registered(active_forwards) :
                        \E v \in Vals(active_forwards, t) : procs[v.id].state = "running"}
             /\ \A t \in Registered(active_forwards') :
                   \E v \in Vals(active_forwards', t) : procs'[v.id].state = "running"]_vars

\* C6: after stop(tunnel_id) on a registered tunnel the process that was
\* registered is not running (killed when it ignored the termination
\* request), the log sink that was registered is closed, and the registry
\* holds no handle, no log sink and no config for the tunnel.
C6_StopEndsProcessAndRemovesEntry ==
    [][\A t \in TunnelIds :
          (t \in Registered(active_forwards) /\ last'.op = "stop" /\ last'.tunnel_id = t)
             => /\ \A v \in Vals(active_forwards, t) : procs'[v.id].state # "running"
                /\ Vals(active_forwards, LogKey(t)) # {}
                /\ \A v \in Vals(active_forwards, LogKey(t)) :
                      v.type = "file" /\ files'[v.id].state = "closed"
                /\ EntryOf(active_forwards', forward_configs', t) = NoEntry]_vars

\* C6 witness: a stop has ended a registered process that ignored the
\* termination request.
C6_Witness ==
    /\ last.op = "stop"
    /\ \E p \in last.ev.killed : procs[p].tunnel_id = last.tunnel_id
    /\ EntryOf(active_forwards, forward_configs, last.tunnel_id) = NoEntry

\* C7: stop on a tunnel_id that has no handle in the registry leaves the
\* registry, the configs, the processes and the log sinks as they were.
C7_StopOfUnknownTunnelChangesNothing ==
    [][\A t \in TunnelIds :
          (t \notin Registered(active_forwards) /\ last'.op = "stop" /\ last'.tunnel_id = t)
             => /\ active_forwards' = active_forwards
                /\ forward_configs' = forward_configs
                /\ procs' = procs
                /\ files' = files
                /\ last'.exc = "none"]_vars

\* C7 witness: a stop of an unregistered tunnel, made while another tunnel
\* has a running process and the log sink of a failed start is still stored
\* under the log key of the stopped tunnel.
C7_Witness ==
    /\ last.op = "stop"
    /\ last.tunnel_id \notin Registered(active_forwards)
    /\ Vals(active_forwards, LogKey(last.tunnel_id)) # {}
    /\ Running(procs) # {}

\* C8: cleanup_all does not raise, and after it the registry and the
\* configs are empty and no process that was registered is running, also
\* when a stop inside it has swallowed a failure.
C8_CleanupAllStopsEverything ==
    [][last'.op = "cleanup_all"
          => /\ last'.exc = "none"
             /\ active_forwards' = <<>>
             /\ DOMAIN forward_configs' = {}
             /\ \A i \in 1..Len(active_forwards) :
                   active_forwards[i].val.type = "proc"
                      => procs'[active_forwards[i].val.id].state # "running"]_vars

\* C8 witness: a cleanup_all that swallowed a failure inside a stop and
\* ended the processes of two tunnels, one of them by a kill.
C8_Witness ==
    /\ last.op = "cleanup_all"
    /\ last.ev.errors > 0
    /\ last.ev.killed # {}
    /\ \E p, q \in last.ev.stopped : procs[p].tunnel_id # procs[q].tunnel_id

\* C9 as stated: after cleanup_all the log sink of every tunnel that was
\* registered is closed.
C9_CleanupAllClosesLogSinks ==
    [][last'.op = "cleanup_all"
          => \A t \in Registered(active_forwards) :
                \A v \in Vals(active_forwards, LogKey(t)) :
                   v.type = "file" => files'[v.id].state = "closed"]_vars

\* C10: a start with a tunnel_type outside tcp, udp, ws, grpc, tcpmux fails
\* with the ValueError of the unsupported type, and the call spawns no
\* process and opens no log sink.
C10_UnsupportedKindFailsBeforeSpawn ==
    [][(last'.op = "start" /\ last'.tunnel_type \notin SupportedKinds)
          => /\ last'.exc = "ValueError"
             /\ DOMAIN procs' = DOMAIN procs
             /\ DOMAIN files' = DOMAIN files
             /\ Running(procs') \subseteq Running(procs)
             /\ OpenFiles(files') \subseteq OpenFiles(files)]_vars

\* C10 witness: a start with an unsupported tunnel_type on a tunnel that was
\* registered and running.
C10_Witness ==
    /\ last.op = "start"
    /\ last.tunnel_type \notin SupportedKinds
    /\ last.exc = "ValueError"
    /\ last.ev.stopped # {}

\* The binary is neither at the fixed path nor on PATH, or it is at the
\* fixed path without the executable bit.
BinaryUnusable(fs) == (~fs.exists /\ ~fs.on_path) \/ (fs.exists /\ ~fs.executable)

\* C15: a start_forward (called directly or by is_forwarding for a restart)
\* that finds the binary unusable fails, and the call spawns no process and
\* opens no log file.
C15_UnusableBinaryFailsBeforeSpawn ==
    [][(last'.starts = 1 /\ BinaryUnusable(last'.fs))
          => /\ last'.op = "start" => last'.exc \in {"RuntimeError", "ValueError"}
             /\ last'.op = "is_active" => last'.ret = "False"
             /\ last'.pid = 0 /\ last'.fid = 0
             /\ DOMAIN procs' = DOMAIN procs
             /\ DOMAIN files' = DOMAIN files
             /\ Running(procs') \subseteq Running(procs)
             /\ OpenFiles(files') \subseteq OpenFiles(files)]_vars

\* C15 witness: a start with a supported tunnel_type on a registered tunnel
\* has ended the running process and then failed at the binary check: the
\* binary at the fixed path has no executable bit.
C15_Witness ==
    /\ last.op = "start"
    /\ last.stage = "binary"
    /\ last.exc = "RuntimeError"
    /\ BinaryUnusable(last.fs)
    /\ last.fs.exists
    /\ last.ev.stopped # {}

\* C16: when the process that a start_forward spawned is running as the call
\* ends, the call has succeeded and registered the process with its config,
\* whatever the connect attempts gave (listening, refused, an error), and it
\* has made one attempt or two.
C16_ProbeIsAdvisory ==
    (last.starts = 1 /\ last.pid # 0 /\ procs[last.pid].state = "running")
       => /\ last.op = "start" => last.exc = "none"
          /\ last.ret = "True"
          /\ Vals(active_forwards, last.tunnel_id) = {ProcVal(last.pid)}
          /\ last.tunnel_id \in DOMAIN forward_configs
          /\ last.probes \in {1, 2}
          /\ Len(last.probed) = last.probes
          /\ \A i \in 1..Len(last.probed) : last.probed[i] \in ProbeOutcomes

\* C16 witness: a start whose first connect attempt was refused and whose
\* second one raised has registered its running process.
C16_Witness ==
    /\ last.op = "start" /\ last.exc = "none"
    /\ last.probed = <<"refused", "error">>
    /\ procs[last.pid].state = "running"
    /\ Vals(active_forwards, last.tunnel_id) = {ProcVal(last.pid)}

\* C19 as stated: when a start_forward has succeeded, the process it
\* registered was running at every poll the call made, the second poll
\* included: the process is running as the call ends.
C19_SuccessMeansRunningAtEveryPoll ==
    (last.starts = 1 /\ last.pid # 0 /\ last.stage = "done")
       => /\ procs[last.pid].state = "running"
          /\ last.polls \in {1, 2}

\* C20 as stated: a stop_forward of tunnel X, called directly or by a
\* start_forward of X, leaves running the process of every other registered
\* tunnel whose local_port differs from the one of X.
C20_StopEndsOnlyItsOwnProcesses ==
    [][\A x \in TunnelIds :
          (last'.op \in {"stop", "start"} /\ last'.tunnel_id = x)
             => \A y \in Registered(active_forwards) \ {x} :
                   (x \in DOMAIN forward_configs /\ y \in DOMAIN forward_configs
                       => forward_configs[y].local_port # forward_configs[x].local_port)
                      => \A v \in Vals(active_forwards, y) :
                            procs[v.id].state = "running" => procs'[v.id].state = "running"]_vars

\* ------------------------------------------------------------- claims on the command
\* The table of the forward schemes.
SchemeTable == [tcp |-> "tcp", udp |-> "udp", ws |-> "tcp", grpc |-> "tcp", tcpmux |-> "tcp"]

RECURSIVE DecimalValue(_)
\* The number that a text of decimal digits reads as.
DecimalValue(ds) ==
    IF ds = <<>> THEN 0
    ELSE 10 * DecimalValue(SubSeq(ds, 1, Len(ds) - 1))
         + (CHOOSE d \in 0..9 : DigitChar[d + 1] = ds[Len(ds)])

ListenPrefix(kind) == <<"-L=", kind, "://", "0", ".", "0", ".", "0", ".", "0", ":">>

\* C17: for each of the five kinds, every port and every target, a usable
\* binary gives a command of three words: the binary (the one at the fixed
\* path, else the one found on PATH), -L=<kind>://0.0.0.0:<local_port> with
\* the port in decimal, and -F=<scheme>://<forward_to> with the scheme of
\* the table.
C17_CommandFollowsTheTable ==
    (last.op = "build" /\ last.tunnel_type \in SupportedKinds /\ ~BinaryUnusable(last.fs))
       => /\ last.exc = "none"
          /\ Len(last.cmd) = 3
          /\ last.cmd[1] = IF last.fs.exists THEN FixedBinary ELSE PathBinary
          /\ LET listen == last.cmd[2]
                 n == Len(ListenPrefix(last.tunnel_type))
                 port == SubSeq(listen, n + 1, Len(listen))
             IN /\ SubSeq(listen, 1, n) = ListenPrefix(last.tunnel_type)
                /\ port # <<>>
                /\ \A i \in 1..Len(port) : \E d \in 1..10 : DigitChar[d] = port[i]
                /\ Len(port) > 1 => port[1] # "0"
                /\ DecimalValue(port) = last.local_port
          /\ last.cmd[3] = <<"-F=", SchemeTable[last.tunnel_type], "://">> \o last.forward_to

\* C17 witness: the command of a ws tunnel on port 8080, with the binary
\* found on PATH.
C17_Witness ==
    /\ last.op = "build"
    /\ last.tunnel_type = "ws"
    /\ last.local_port = 8080
    /\ last.cmd # <<>>
    /\ last.cmd[1] = PathBinary

\* ------------------------------------------------------------- claims on the boot
\* A row the reconciliation is to start: active, of a handled kind, and with
\* every field its start call needs.
Eligible(tunnel) ==
    /\ tunnel.status = "active"
    /\ \/ /\ tunnel.core = "xray" /\ tunnel.type \in {"tcp", "ws", "grpc"}
          /\ (tunnel.spec.remote_port # 0 \/ tunnel.spec.listen_port # 0)
          /\ tunnel.node.found /\ tunnel.node.ip_address # ""
       \/ /\ tunnel.core = "rathole"
          /\ (tunnel.spec.remote_port # 0 \/ tunnel.spec.listen_port # 0)
          /\ tunnel.spec.remote_addr # "" /\ tunnel.spec.token # ""

\* The start calls the boot made for the row id.
CallsFor(b, id) == {i \in 1..Len(b.calls) : b.calls[i].tunnel = id}

\* C11 as stated: when the boot has reconciled, every eligible row of the
\* table has got exactly one start call and every other row none.
C11_OneStartPerEligibleTunnel ==
    boot.at = "serving"
       => \A id \in 1..Len(boot.tunnels) :
             Cardinality(CallsFor(boot, id)) = IF Eligible(boot.tunnels[id]) THEN 1 ELSE 0

\* C12 as stated: when a start call of the reconciliation has failed, the
\* boot still reaches the point where it serves and every eligible row has
\* got its start call.
C12_FailedStartDoesNotBlockTheRest ==
    (\E i \in 1..Len(boot.calls) : boot.calls[i].result = "raises")
       => /\ boot.at \in {"rathole", "serving"}
          /\ boot.at = "serving"
                => \A id \in 1..Len(boot.tunnels) :
                      Eligible(boot.tunnels[id]) => CallsFor(boot, id) # {}

\* ------------------------------------------------------------- claims on overlapping calls
\* C13 as stated: whatever way two calls on a tunnel overlap, the tunnel
\* never has two running processes, and when no call is in progress every
\* running process is the one the registry holds for its tunnel.
C13_OverlappingCallsKeepOneLiveProcess ==
    /\ \A t \in SharedTunnelIds : Cardinality(LiveOf(procs, t)) <= 1
    /\ (\A th \in Threads : threads[th].pc = "idle")
          => \A p \in Running(procs) :
                Vals(active_forwards, procs[p].tunnel_id) = {ProcVal(p)}

\* C18: a stop that has been called returns, also when the registered
\* process ignores SIGTERM: after the wait of 5 seconds the process is
\* killed, and the kill ends it.
C18_StopReturns ==
    \A th \in Threads : (threads[th].op = "stop") ~> (threads[th].pc = "idle")

\* C18 witness: a stop whose wait has timed out on a registered process that
\* ignored SIGTERM and is still running, right before the kill.
C18_Witness ==
    \E th \in Threads :
       /\ threads[th].op = "stop"
       /\ threads[th].pc = "stop_kill"
       /\ procs[threads[th].proc].state = "running"
       /\ Vals(active_forwards, threads[th].tunnel_id) = {ProcVal(threads[th].proc)}

\* ------------------------------------------------------------- claims on a restarted panel
\* C14 as stated: a stop of a tunnel for which no handle is tracked still
\* ends the running processes of the tunnel, the ones a restart of the panel
\* has orphaned.
C14_StopSweepsWithoutTrackedHandle ==
    [][\A t \in TunnelIds :
          (t \notin Registered(active_forwards) /\ last'.op = "stop" /\ last'.tunnel_id = t)
             => \A p \in LiveOf(procs, t) : procs'[p].state # "running"]_vars

\* ------------------------------------------------------------- claims on the two maps
\* C21: between two calls issued one at a time, a tunnel has a process handle
\* in active_forwards exactly when it has a stored config in forward_configs,
\* so the registered process that is found dead has the config is_forwarding
\* needs for the restart.
C21_HandleIffConfig ==
    \A t \in TunnelIds :
       /\ (t \in Registered(active_forwards)) <=> (t \in DOMAIN forward_configs)
       /\ (t \in Registered(active_forwards)
              /\ procs[Get(active_forwards, t).id].state # "running")
             => WouldRestart(World, t)

\* C21 witness: one tunnel is registered with a process that has exited and
\* has its config, the other tunnel has just been stopped and has neither.
C21_Witness ==
    \E t, u \in TunnelIds :
       /\ t # u
       /\ t \in Registered(active_forwards)
       /\ procs[Get(active_forwards, t).id].state = "exited"
       /\ t \in DOMAIN forward_configs
       /\ last.op = "stop" /\ last.tunnel_id = u
       /\ u \notin Registered(active_forwards)
       /\ u \notin DOMAIN forward_configs

\* ------------------------------------------------------------- claims on tunnel ids that are log keys
\* C22 as stated: every value a call takes out of the registry under a key
\* it treats as a tunnel_id is a process handle, and a call on one tunnel_id
\* neither reads, replaces nor removes the process handle or the log file
\* object of another tunnel_id, also when one id is the other's log key.
C22_TunnelsKeepTheirOwnKeys ==
    [][/\ \A v \in Treated(World, last'.op, last'.tunnel_id) : v.type = "proc"
       /\ last'.op \in {"start", "stop", "is_active"}
             => \A u \in AliasTunnelIds \ {last'.tunnel_id} :
                   /\ Treated(World, last'.op, last'.tunnel_id) \cap LogOf(active_forwards, u) = {}
                   /\ HandleOf(active_forwards, u) \subseteq HandleOf(active_forwards', u)
                   /\ LogOf(active_forwards, u) \subseteq LogOf(active_forwards', u)]_vars

====
